---- MODULE Spec2Model ----
(***************************************************************************)
(* Model of the push-down-out-of-stock app.                                *)
(*                                                                         *)
(*  Spec         the client supervisor hook (queue variant),               *)
(*               src/app/hooks/useSupervisor.ts lines 1-267, with the      *)
(*               operation manager (src/app/entry.server.tsx 70-206) and   *)
(*               the supervisor utilities (src/app/utils/supervisor.client)*)
(*  SortSpec     the sort engine and the two server actions that call it   *)
(*  ApplySpec    the updateSetting action with its database writes and     *)
(*               every outcome of the calls it awaits                      *)
(*  ReorderSpec  reorderCollectionProducts and waitForJobCompletion        *)
(*  TagSpec      areStatesEqual, detectStateDifferences, isTagValid and    *)
(*               the response handler, applied to states of any shape      *)
(*  FetchSpec    the mapping of a product node of the catalog's answer to  *)
(*               the product the sort engine works on                      *)
(*  StartSpec    the hook from its construction: the initialisation effect *)
(*               on any loader data, the first renders and the first       *)
(*               updateCollectionState                                     *)
(*                                                                         *)
(* React state is modelled as it behaves: a setState call changes the      *)
(* state at once but the memoised callbacks and effects only see it after  *)
(* the next render (Commit); refs (operationQueueRef, isProcessingRef) and *)
(* the fetcher submission are visible immediately.  The interval of the    *)
(* timeout effect is re-armed by every render that changed operationStatus,*)
(* so a Tick happens only when no render is pending.                       *)
(*                                                                         *)
(* Left out: the loader revalidation that re-runs the initialisation       *)
(* effect, and responses that carry no operationTag.                       *)
(***************************************************************************)
EXTENDS Integers, Sequences, FiniteSets, TLC

\* ------------------------------------------------------------------ bounds
\* number of updateCollectionState calls in a run
MaxUpdates == 3
\* number of retryOperation calls in a run
MaxRetryCalls == 1
\* retryCount is only ever compared with 2; larger counts are saturated here
MaxRetryCount == 3
\* the history counter attempts[c] is saturated here
MaxAttempts == 4

\* ------------------------------------------------------- program constants
timeoutMs == 10000
cleanupDelayMs == 3000
tickMs == 1000
maxRetries == 2

AgeCap(status) ==
    CASE status.status = "processing" -> timeoutMs + tickMs
      [] status.status \in {"ready", "error"} -> cleanupDelayMs + tickMs
      [] OTHER -> 0

Min(a, b) == IF a < b THEN a ELSE b

\* ----------------------------------------------------------- collections
\* Object.entries(uiState) enumerates the keys in insertion order
CollSeq == <<"c1", "c2">>
Colls == {CollSeq[i] : i \in 1..Len(CollSeq)}

\* --------------------------------------------------------- tags as strings
\* the strings used as tags, listed in the order of Array.prototype.sort()
\* (UTF-16 code units: upper case before lower case)
TagOrder == <<"PreOrder", "Sale", "preorder", "sale">>
TagStrings == {TagOrder[i] : i \in 1..Len(TagOrder)}
TagRank(t) == CHOOSE i \in 1..Len(TagOrder) : TagOrder[i] = t

toLowerCase(t) ==
    CASE t = "PreOrder" -> "preorder"
      [] t = "Sale"     -> "sale"
      [] OTHER          -> t

RECURSIVE InsertSorted(_, _)
InsertSorted(t, s) ==
    IF s = <<>> THEN <<t>>
    ELSE IF TagRank(t) <= TagRank(Head(s)) THEN <<t>> \o s
    ELSE <<Head(s)>> \o InsertSorted(t, Tail(s))

\* [...tags].sort()
RECURSIVE SortTags(_)
SortTags(s) == IF s = <<>> THEN <<>> ELSE InsertSorted(Head(s), SortTags(Tail(s)))

\* ------------------------------------------------------ supervisor.client
normalizeCollectionState ==
    [enabled |-> FALSE, sortType |-> "bestsellers", exclusionTags |-> <<>>]

\* a comparison that leaves the sort out
areStatesEqualInOrder(state1, state2) ==
    /\ state1.enabled = state2.enabled
    /\ state1.sortType = state2.sortType
    /\ state1.exclusionTags = state2.exclusionTags

areStatesEqual(state1, state2) ==
    IF state1.enabled # state2.enabled THEN FALSE
    ELSE IF state1.sortType # state2.sortType THEN FALSE
    ELSE LET tags1 == SortTags(state1.exclusionTags)
             tags2 == SortTags(state2.exclusionTags)
         IN  IF Len(tags1) # Len(tags2) THEN FALSE
             ELSE \A i \in 1..Len(tags1) : tags1[i] = tags2[i]

\* the collection ids that differ, in the order of Object.entries(uiState);
\* a key of uiState without an implemented state differs
RECURSIVE DiffFrom(_, _, _)
DiffFrom(i, ui, impl) ==
    IF i > Len(CollSeq) THEN <<>>
    ELSE LET c == CollSeq[i]
         IN  (IF c \notin DOMAIN ui THEN <<>>
              ELSE IF c \notin DOMAIN impl
                THEN <<[collectionId |-> c, targetState |-> ui[c]]>>
              ELSE IF ~areStatesEqual(impl[c], ui[c])
                THEN <<[collectionId |-> c, targetState |-> ui[c]]>>
                ELSE <<>>) \o DiffFrom(i + 1, ui, impl)

detectStateDifferences(ui, impl) == DiffFrom(1, ui, impl)

NoTag == [collectionId |-> "none", targetState |-> normalizeCollectionState]

createOperationTag(collectionId, targetState) ==
    [collectionId |-> collectionId, targetState |-> targetState]

\* a tag check that looks at the collection id only and never at the state
isTagValidIdOnly(responseTag, currentUIState) ==
    responseTag.collectionId \in DOMAIN currentUIState

isTagValid(responseTag, currentUIState) ==
    IF responseTag.collectionId = "none" THEN FALSE
    ELSE IF responseTag.collectionId \notin DOMAIN currentUIState THEN FALSE
    ELSE areStatesEqual(currentUIState[responseTag.collectionId], responseTag.targetState)

\* -------------------------------------------------- operation-manager.client
\* An OperationStatus; age stands for Date.now() - timestamp, saturated at
\* AgeCap: a 'processing' status is only compared with timeoutMs, a 'ready' or
\* 'error' status only with cleanupDelayMs, a 'retry' status with nothing.
\* status "none" stands for an absent entry of the OperationStatusMap.
NoStatus == [status |-> "none", age |-> 0, retryCount |-> 0, lastError |-> "none"]

initializeOperationStatus ==
    [status |-> "processing", age |-> 0, retryCount |-> 0, lastError |-> "none"]

updateOperationStatus(currentStatus, success, error) ==
    IF success
      THEN [currentStatus EXCEPT !.status = "ready", !.age = 0, !.lastError = "none"]
      ELSE LET shouldRetry == currentStatus.retryCount < maxRetries
           IN  [currentStatus EXCEPT
                  !.status = IF shouldRetry THEN "retry" ELSE "error",
                  !.age = 0,
                  !.retryCount = Min(currentStatus.retryCount + 1, MaxRetryCount),
                  !.lastError = error]

isOperationTimedOut(status) ==
    status.status = "processing" /\ status.age > timeoutMs

\* a cleanup test that never asks for a removal
shouldCleanupNever(status) == FALSE

shouldCleanupStatus(status) ==
    status.status \in {"ready", "error"} /\ status.age > cleanupDelayMs

\* ------------------------------------------------------------------ state
VARIABLES
    uiState,            \* useState<UIState>
    implementedState,   \* useState<ImplementedState>
    operationStatus,    \* useState<OperationStatusMap>
    operationQueue,     \* operationQueueRef.current
    isProcessing,       \* isProcessingRef.current
    fetcher,            \* mainFetcher: [state, hasData, data]
    request,            \* the submission mainFetcher is waiting for (its tag)
    rendered,           \* View of the last render, seen by its callbacks
    dirty,              \* the state slots set since the last render
    updatesLeft,        \* updateCollectionState calls still to come
    retriesLeft,        \* retryOperation calls still to come
    attempts            \* history: requests submitted for c since uiState[c]
                        \* last changed, retryOperation(c) or a success for c

supVars == <<uiState, implementedState, operationStatus, operationQueue,
             isProcessing, fetcher, request, rendered, dirty, updatesLeft,
             retriesLeft, attempts>>

\* the sort engine and the server actions that call it
VARIABLES
    products,           \* collectionData.products, as fetchCollectionProducts returns them
    storedTags,         \* the collection's db.exclusionTag rows
    exclusionTags,      \* the list last passed to sortProductsWithInventory
    inStock,            \* its last result
    outOfStock,
    sortVia,            \* the caller of the last sort, or how the request ended
    storedSetting,      \* the CollectionSetting row of (shop, c1)
    otherTags,          \* the ExclusionTag rows of (shop, c2)
    catalog,            \* the catalog calls of the request last handled
    formData,           \* the form of the updateSetting request last handled
    actionResponse      \* the json the updateSetting action returned for it

sortVars == <<products, storedTags, exclusionTags, inStock, outOfStock, sortVia,
              storedSetting, otherTags, catalog,
              formData, actionResponse>>

\* one call of reorderCollectionProducts and the catalog it writes to
VARIABLES
    pc,                 \* where the call is: idle, setManual, submit, wait, done
    sortOrder,          \* the collection's sortOrder in the catalog
    sortOrderBefore,    \* the same when the call began
    sortedProductIds,   \* argument
    originalSortType,   \* argument
    moves,              \* the moves submitted with collectionReorderProducts
    job,                \* result.job of the submission: [id, done]
    elapsed,            \* Date.now() - startTime in waitForJobCompletion
    polls,              \* history: status queries waitForJobCompletion has sent
    jobResult,          \* what waitForJobCompletion returned
    sortOrderResult,    \* what updateCollectionSortOrder returned
    submissions,        \* collectionReorderProducts mutations sent by the call
    result              \* what reorderCollectionProducts returned

reorderVars == <<pc, sortOrder, sortOrderBefore, sortedProductIds, originalSortType, moves, job,
                 elapsed, polls, jobResult, sortOrderResult, submissions, result>>

\* the state comparison and the tag check, applied to states of any shape
VARIABLES
    state1,             \* uiState of c1, the first argument of the comparison
    state2,             \* the state it is compared with: implementedState of
                        \* c1, or the target of a tag issued for c1
    stamps,             \* Date.now() at the issue of that tag and of the next
    checked,            \* the function applied last, whose result is kept:
    equalTo,            \* what areStatesEqual returned
    detected,           \* what detectStateDifferences returned
    validTag,           \* what isTagValid returned
    handled             \* c1 in the hook after the response handler ran

tagVars == <<state1, state2, stamps, checked, equalTo, detected, validTag, handled>>

\* one product of the answer to FETCH_COLLECTION_PRODUCTS_QUERY
VARIABLES
    productNode,        \* the product with its variants, as the shop holds it
    fetched,            \* the ProductForSorting fetchCollectionProducts made of it
    placed              \* the bucket sortProductsWithInventory put it in

fetchVars == <<productNode, fetched, placed>>

\* the loader data the hook is constructed with
VARIABLES
    existingSettings,   \* the CollectionSetting rows of the shop
    initialCollections, \* the collections of the page
    initialized         \* the initialisation effect has run

startVars == <<existingSettings, initialCollections, initialized>>

vars == <<supVars, sortVars, reorderVars, tagVars, fetchVars, startVars>>

NoData == [success |-> FALSE, error |-> "none", operationTag |-> NoTag]

\* the mutable part of the hook that a callback reads and writes while it runs
Hook == [implementedState |-> implementedState,
         operationStatus  |-> operationStatus,
         operationQueue   |-> operationQueue,
         isProcessing     |-> isProcessing,
         fetcher          |-> fetcher,
         request          |-> request,
         dirty            |-> dirty,
         attempts         |-> attempts]

Snapshot == [uiState          |-> uiState,
             implementedState |-> implementedState,
             operationStatus  |-> operationStatus,
             fetcher          |-> fetcher]

\* what the callbacks of a render read of it: of operationStatus only the
\* status field (runSupervisor, and the retry button of the page)
View(snap) == [uiState |-> snap.uiState, implementedState |-> snap.implementedState,
               operationStatus |-> [c \in Colls |-> [status |-> snap.operationStatus[c].status]]]

\* ----------------------------------------------------------- processQueue
processQueue(h) ==
    IF h.isProcessing \/ Len(h.operationQueue) = 0 THEN h
    ELSE LET operation == Head(h.operationQueue)
             c == operation.collectionId
         IN  [h EXCEPT
                !.isProcessing = TRUE,
                !.operationQueue = Tail(h.operationQueue),
                !.operationStatus = [h.operationStatus EXCEPT ![c] = initializeOperationStatus],
                !.fetcher = [h.fetcher EXCEPT !.state = "submitting"],
                !.request = createOperationTag(c, operation.targetState),
                !.dirty = h.dirty \cup {"operationStatus", "fetcher"},
                !.attempts = [h.attempts EXCEPT ![c] = Min(h.attempts[c] + 1, MaxAttempts)]]

\* ----------------------------------------------------------- runSupervisor
InQueue(q, c) == \E i \in 1..Len(q) : q[i].collectionId = c

RECURSIVE EnqueueFrom(_, _, _, _)
EnqueueFrom(i, differences, snapStatus, q) ==
    IF i > Len(differences) THEN q
    ELSE LET d == differences[i]
             isAlreadyProcessing == snapStatus[d.collectionId].status = "processing"
             isAlreadyInQueue == InQueue(q, d.collectionId)
         IN  EnqueueFrom(i + 1, differences, snapStatus,
                         IF ~isAlreadyProcessing /\ ~isAlreadyInQueue
                           THEN Append(q, d) ELSE q)

\* snap is the render the callback was created in
runSupervisor(snap, h) ==
    LET differences == detectStateDifferences(snap.uiState, snap.implementedState)
    IN  processQueue([h EXCEPT !.operationQueue =
            EnqueueFrom(1, differences, snap.operationStatus, h.operationQueue)])

\* ------------------------------------------------- fetcher response handler
responseHandler(snap, h) ==
    IF ~(snap.fetcher.state = "idle" /\ snap.fetcher.hasData) THEN h
    ELSE
      LET data == snap.fetcher.data
          responseTag == data.operationTag
          c == responseTag.collectionId
      IN  IF c = "none"
            THEN processQueue([h EXCEPT !.isProcessing = FALSE])
            ELSE
              LET h1 ==
                    IF isTagValid(responseTag, snap.uiState)
                      THEN [h EXCEPT
                              !.implementedState = [h.implementedState EXCEPT ![c] = snap.uiState[c]],
                              !.operationStatus = [h.operationStatus EXCEPT ![c] =
                                  updateOperationStatus(
                                     IF snap.operationStatus[c].status = "none"
                                       THEN initializeOperationStatus
                                       ELSE snap.operationStatus[c],
                                     data.success, data.error)],
                              !.dirty = h.dirty \cup {"implementedState", "operationStatus"},
                              !.attempts = [h.attempts EXCEPT ![c] =
                                  IF data.success THEN 0 ELSE h.attempts[c]]]
                      ELSE h
              IN  processQueue([h1 EXCEPT !.isProcessing = FALSE])

\* --------------------------------------------------------------- the tick
Aged(status) ==
    IF status.status = "none" THEN status
    ELSE [status EXCEPT !.age = Min(status.age + tickMs, AgeCap(status))]

\* the forEach of the interval callback, from entry i on; t carries the local
\* variables updated and hasChanges and the hook
RECURSIVE TickFrom(_, _)
TickFrom(i, t) ==
    IF i > Len(CollSeq) THEN t
    ELSE LET c == CollSeq[i]
             status == t.updated[c]
         IN  IF status.status = "none" THEN TickFrom(i + 1, t)
             ELSE IF status.status = "processing" /\ isOperationTimedOut(status)
               THEN TickFrom(i + 1,
                      [updated |-> [t.updated EXCEPT ![c] =
                                       updateOperationStatus(status, FALSE, "Operation timed out")],
                       hasChanges |-> TRUE,
                       hook |-> IF t.hook.isProcessing /\ Len(t.hook.operationQueue) = 0
                                  THEN processQueue([t.hook EXCEPT !.isProcessing = FALSE])
                                  ELSE t.hook])
             ELSE IF shouldCleanupStatus(status)
               THEN TickFrom(i + 1, [t EXCEPT !.updated[c] = NoStatus, !.hasChanges = TRUE])
             ELSE TickFrom(i + 1, t)

\* ------------------------------------------------------------------- Init
InitialState == [c \in Colls |-> normalizeCollectionState]

InitSup ==
    /\ uiState = InitialState
    /\ implementedState = InitialState
    /\ operationStatus = [c \in Colls |-> NoStatus]
    /\ operationQueue = <<>>
    /\ isProcessing = FALSE
    /\ fetcher = [state |-> "idle", hasData |-> FALSE, data |-> NoData]
    /\ request = NoTag
    /\ rendered = [uiState |-> InitialState, implementedState |-> InitialState,
                   operationStatus |-> [c \in Colls |-> [status |-> "none"]]]
    /\ dirty = {}
    /\ updatesLeft = MaxUpdates
    /\ retriesLeft = MaxRetryCalls
    /\ attempts = [c \in Colls |-> 0]

\* the hook after a callback has run
Store(h) ==
    /\ implementedState' = h.implementedState
    /\ operationStatus' = h.operationStatus
    /\ operationQueue' = h.operationQueue
    /\ isProcessing' = h.isProcessing
    /\ fetcher' = h.fetcher
    /\ request' = h.request
    /\ dirty' = h.dirty
    /\ attempts' = h.attempts

\* ----------------------------------------------------------------- actions
\* the values a user sets through the collections page
Updates == { [field |-> "enabled", value |-> TRUE],
             [field |-> "enabled", value |-> FALSE],
             [field |-> "sortType", value |-> "price_desc"] }

\* a merge that starts from the defaults
MergeIntoDefault(state, u) ==
    CASE u.field = "enabled"  -> [normalizeCollectionState EXCEPT !.enabled = u.value]
      [] u.field = "sortType" -> [normalizeCollectionState EXCEPT !.sortType = u.value]
      [] OTHER                -> [normalizeCollectionState EXCEPT !.exclusionTags = u.value]

\* { ...prev[collectionId], ...updates }
Merge(state, u) ==
    CASE u.field = "enabled"  -> [state EXCEPT !.enabled = u.value]
      [] u.field = "sortType" -> [state EXCEPT !.sortType = u.value]
      [] OTHER                -> [state EXCEPT !.exclusionTags = u.value]

updateCollectionState(c, u) ==
    /\ updatesLeft > 0
    /\ updatesLeft' = updatesLeft - 1
    /\ IF c \notin DOMAIN uiState
         THEN UNCHANGED <<uiState, dirty, attempts>>
         ELSE /\ uiState' = [uiState EXCEPT ![c] = Merge(uiState[c], u)]
              /\ dirty' = dirty \cup {"uiState"}
              /\ attempts' = [attempts EXCEPT ![c] = IF uiState'[c] # uiState[c] THEN 0 ELSE @]
    /\ UNCHANGED <<implementedState, operationStatus, operationQueue, isProcessing,
                   fetcher, request, rendered, retriesLeft>>
    /\ UNCHANGED <<sortVars, reorderVars, tagVars, fetchVars, startVars>>

\* a render and the effects that run after it: the response handler when one
\* of its dependencies changed, then the auto-run of runSupervisor
Committed ==
    LET snap == Snapshot
        h0 == [Hook EXCEPT !.dirty = {}]
        h1 == IF dirty \cap {"fetcher", "uiState", "operationStatus"} # {}
                THEN responseHandler(snap, h0) ELSE h0
    IN  runSupervisor(snap, h1)

Commit ==
    /\ dirty # {}
    /\ Store(Committed)
    /\ rendered' = View(Snapshot)
    /\ UNCHANGED <<uiState, updatesLeft, retriesLeft>>
    /\ UNCHANGED <<sortVars, reorderVars, tagVars, fetchVars, startVars>>

\* the remote apply action answers the submission the fetcher is waiting for;
\* the round trip is longer than the render that follows the submit
ServerResponse(success) ==
    /\ request # NoTag
    /\ "fetcher" \notin dirty
    /\ fetcher' = [state |-> "idle", hasData |-> TRUE,
                   data |-> [success |-> success,
                             error |-> IF success THEN "none" ELSE "Failed to save setting",
                             operationTag |-> request]]
    /\ request' = NoTag
    /\ dirty' = dirty \cup {"fetcher"}
    /\ UNCHANGED <<uiState, implementedState, operationStatus, operationQueue,
                   isProcessing, rendered, updatesLeft, retriesLeft, attempts>>
    /\ UNCHANGED <<sortVars, reorderVars, tagVars, fetchVars, startVars>>

\* one second passes and the interval callback runs. The interval is re-armed
\* by every render that changed operationStatus, so it fires between renders.
Tick ==
    /\ dirty = {}
    /\ \E c \in Colls : operationStatus[c].status # "none"
    /\ LET aged == [c \in Colls |-> Aged(operationStatus[c])]
           t == TickFrom(1, [updated |-> aged, hasChanges |-> FALSE,
                             hook |-> [Hook EXCEPT !.operationStatus = aged]])
           h == IF t.hasChanges
                  THEN [t.hook EXCEPT !.operationStatus = t.updated,
                                      !.dirty = @ \cup {"operationStatus"}]
                  ELSE t.hook
       IN  /\ Store(h)
           /\ UNCHANGED rendered
    /\ UNCHANGED <<uiState, updatesLeft, retriesLeft>>
    /\ UNCHANGED <<sortVars, reorderVars, tagVars, fetchVars, startVars>>

\* the retry button is rendered for a collection whose status is 'error'
\* (src/app/routes/app.collections.tsx:1584-1586)
\* a removal that empties the map
deleteEveryStatus(statusMap, c) == [d \in Colls |-> NoStatus]

\* const next = { ...prev }; delete next[collectionId]
deleteStatus(statusMap, c) == [statusMap EXCEPT ![c] = NoStatus]

retryOperation(c) ==
    /\ retriesLeft > 0
    /\ rendered.operationStatus[c].status = "error"
    /\ retriesLeft' = retriesLeft - 1
    /\ LET h0 == [Hook EXCEPT !.operationStatus = deleteStatus(operationStatus, c),
                              !.dirty = dirty \cup {"operationStatus"},
                              !.attempts = [attempts EXCEPT ![c] = 0]]
       IN  Store(runSupervisor(rendered, h0))
    /\ UNCHANGED <<uiState, rendered, updatesLeft>>
    /\ UNCHANGED <<sortVars, reorderVars, tagVars, fetchVars, startVars>>

Next ==
    \/ \E c \in Colls, u \in Updates : updateCollectionState(c, u)
    \/ Commit
    \/ \E success \in BOOLEAN : ServerResponse(success)
    \/ Tick
    \/ \E c \in Colls : retryOperation(c)

\* ------------------------------------------------------------ sort engine
\* src/app/services/collection-sorting.server.ts and the actions of
\* src/app/routes/app.collections.tsx
MaxProducts == 3

\* an exclusion test that ignores the tags
shouldExcludeNever(product, exclusionTagList) == FALSE

shouldExcludeProduct(product, exclusionTagList) ==
    IF Len(exclusionTagList) = 0 THEN FALSE
    ELSE LET productTagsLower ==
                 [i \in 1..Len(product.tags) |-> toLowerCase(product.tags[i])]
         IN  \E i \in 1..Len(productTagsLower) :
                 \E j \in 1..Len(exclusionTagList) :
                     exclusionTagList[j] = productTagsLower[i]

RECURSIVE SortLoop(_, _, _, _)
SortLoop(i, productList, exclusionTagList, buckets) ==
    IF i > Len(productList) THEN buckets
    ELSE LET product == productList[i]
             isExcluded == shouldExcludeProduct(product, exclusionTagList)
         IN  SortLoop(i + 1, productList, exclusionTagList,
                 IF product.isInStock \/ isExcluded
                   THEN [buckets EXCEPT !.inStock = Append(@, product)]
                   ELSE [buckets EXCEPT !.outOfStock = Append(@, product)])

\* a sort that returns the in-stock bucket only
sortKeepingInStock(productList, exclusionTagList) ==
    [inStock |-> SortLoop(1, productList, exclusionTagList,
                          [inStock |-> <<>>, outOfStock |-> <<>>]).inStock,
     outOfStock |-> <<>>]

sortProductsWithInventory(productList, exclusionTagList) ==
    SortLoop(1, productList, exclusionTagList, [inStock |-> <<>>, outOfStock |-> <<>>])

\* the list handed on as it was sent
tagsAsSent(tags) == tags

\* exclusionTags.map(tag => tag.toLowerCase())
toLowerCaseAll(tags) == [i \in 1..Len(tags) |-> toLowerCase(tags[i])]

\* [...inStock.map(p => p.id), ...outOfStock.map(p => p.id)]
sortedIds(buckets) ==
    [i \in 1..Len(buckets.inStock) |-> buckets.inStock[i].id]
        \o [i \in 1..Len(buckets.outOfStock) |-> buckets.outOfStock[i].id]

ProductIds == <<"A", "B", "C", "D">>
ProductTagLists == { <<>>, <<"preorder">>, <<"PreOrder">>, <<"Sale">> }
ConfiguredTagLists == { <<>>, <<"preorder">>, <<"PreOrder">>, <<"PreOrder", "sale">> }

\* the product lists a collection can hold: distinct ids, any tags and stock
ProductLists ==
    UNION { { [i \in 1..n |-> [id |-> ProductIds[i], tags |-> t[i], isInStock |-> a[i]]] :
                t \in [1..n -> ProductTagLists], a \in [1..n -> BOOLEAN] } :
            n \in 0..MaxProducts }

\* no CollectionSetting row
NoSetting == [enabled |-> FALSE, sortType |-> "none"]

\* createMany({ skipDuplicates: true }): a row that would repeat one of the
\* unique index (shop, collectionId, tag) is not inserted
RECURSIVE insertRows(_, _)
insertRows(rows, tags) ==
    IF tags = <<>> THEN rows
    ELSE insertRows(IF \E i \in 1..Len(rows) : rows[i] = Head(tags)
                      THEN rows ELSE Append(rows, Head(tags)),
                    Tail(tags))

createMany(table, collectionId, tags) ==
    [table EXCEPT ![collectionId] = insertRows(@, tags)]

\* a delete that looks at the shop only
deleteManyOfShop(table, collectionId) == [c \in DOMAIN table |-> <<>>]

\* deleteMany({ where: { shop, collectionId } })
deleteMany(table, collectionId) == [table EXCEPT ![collectionId] = <<>>]

NoForm == [action |-> "none", collectionId |-> "none", enabled |-> "false",
           sortType |-> "none", exclusionTags |-> <<"[", "]">>, operationTag |-> <<>>]
\* let sortStats = null
NoStats == [present |-> FALSE, inStockCount |-> 0, outOfStockCount |-> 0, totalProducts |-> 0]

\* sortStats = { inStockCount, outOfStockCount, totalProducts }
sortStats(in, out) ==
    [present |-> TRUE, inStockCount |-> Len(in), outOfStockCount |-> Len(out),
     totalProducts |-> Len(sortedIds([inStock |-> in, outOfStock |-> out]))]

NoResponse == [success |-> FALSE, error |-> "none", operationTag |-> NoTag, stats |-> NoStats]

\* no call of the catalog; the products were fetched; the products were
\* fetched and reorderCollectionProducts was called with sortedProductIds
NoCatalog == [fetched |-> FALSE, reordered |-> FALSE, sortedProductIds |-> <<>>]
fetchCall == [fetched |-> TRUE, reordered |-> FALSE, sortedProductIds |-> <<>>]
reorderCall(in, out) ==
    [fetched |-> TRUE, reordered |-> TRUE, sortedProductIds |-> sortedIds([inStock |-> in, outOfStock |-> out])]

\* a gate that lets every request through to the sort
sortAlways(enabled) == TRUE

\* if (enabled)
sortIfEnabled(enabled) == enabled

\* JSON.stringify of a list of strings: its tokens
JSONstringifyTags(tags) == <<"[">> \o tags \o <<"]">>

\* JSON.parse of such a text
JSONparseTags(text) == SubSeq(text, 2, Len(text) - 1)

\* JSON.stringify of an operation tag: the values of its fields in order
JSONstringifyTag(tag) ==
    << tag.collectionId,
       IF tag.targetState.enabled THEN "true" ELSE "false",
       tag.targetState.sortType,
       JSONstringifyTags(tag.targetState.exclusionTags) >>

\* operationTagStr ? JSON.parse(operationTagStr) : null
JSONparseTag(text) ==
    IF Len(text) = 0 THEN NoTag
    ELSE [collectionId |-> text[1],
          targetState |-> [enabled |-> text[2] = "true",
                           sortType |-> text[3],
                           exclusionTags |-> JSONparseTags(text[4])]]

createTaggedFormData(collectionId, targetState) ==
    [action |-> "updateSetting",
     collectionId |-> collectionId,
     enabled |-> IF targetState.enabled THEN "true" ELSE "false",
     sortType |-> targetState.sortType,
     exclusionTags |-> JSONstringifyTags(targetState.exclusionTags),
     operationTag |-> JSONstringifyTag(createOperationTag(collectionId, targetState))]

\* a failure answer that leaves the tag out
errorResponseNoTag(error, operationTag) ==
    [success |-> FALSE, error |-> error, operationTag |-> NoTag, stats |-> NoStats]

\* json({ success: false, error, operationTag })
errorResponse(error, operationTag) ==
    [success |-> FALSE, error |-> error, operationTag |-> operationTag, stats |-> NoStats]

SortIdle ==
    /\ products = <<>>
    /\ storedTags = <<>>
    /\ storedSetting = NoSetting
    /\ otherTags = <<>>
    /\ catalog = NoCatalog
    /\ exclusionTags = <<>>
    /\ inStock = <<>>
    /\ outOfStock = <<>>
    /\ sortVia = "none"
    /\ formData = NoForm
    /\ actionResponse = NoResponse

SortInit ==
    /\ products \in ProductLists
    /\ storedTags \in ConfiguredTagLists
    /\ storedSetting \in {NoSetting, [enabled |-> TRUE, sortType |-> "bestsellers"]}
    /\ otherTags = <<"sale">>
    /\ catalog = NoCatalog
    /\ exclusionTags = <<>>
    /\ inStock = <<>>
    /\ outOfStock = <<>>
    /\ sortVia = "none"
    /\ formData = NoForm
    /\ actionResponse = NoResponse

RunSort(exclusionTagList, via) ==
    LET buckets == sortProductsWithInventory(products, exclusionTagList)
    IN  /\ exclusionTags' = exclusionTagList
        /\ inStock' = buckets.inStock
        /\ outOfStock' = buckets.outOfStock
        /\ sortVia' = via

\* a request that ends without a call of sortProductsWithInventory
NoSort(via) ==
    /\ exclusionTags' = <<>>
    /\ inStock' = <<>>
    /\ outOfStock' = <<>>
    /\ sortVia' = via

\* a caller that hands the function a list of its own
DirectSort(tags) ==
    /\ RunSort(tags, "direct")
    /\ formData' = NoForm
    /\ actionResponse' = NoResponse
    /\ catalog' = NoCatalog
    /\ UNCHANGED <<products, storedTags, storedSetting, otherTags>>
    /\ UNCHANGED <<supVars, reorderVars, tagVars, fetchVars, startVars>>

\* what can happen to one updateSetting request: one of the three database
\* writes throws, fetchCollectionProducts throws, reorderCollectionProducts
\* reports a failure, or all goes well
ActionOutcomes == {"upsertThrows", "deleteManyThrows", "createManyThrows",
                   "fetchThrows", "reorderFails", "ok"}

\* the tag lists a request can carry
SentTagLists == ConfiguredTagLists \cup {<<"sale", "sale">>}

\* the database after the writes the action got through
Persist(stage, setting, tags) ==
    LET rows0 == [c \in Colls |-> IF c = "c1" THEN storedTags ELSE otherTags]
        rows1 == deleteMany(rows0, "c1")
        rows2 == IF Len(tags) > 0 THEN createMany(rows1, "c1", tags) ELSE rows1
        rows == CASE stage = "upsert" -> rows0
                  [] stage = "deleteMany" -> rows1
                  [] OTHER -> rows2
    IN  /\ storedSetting' = setting
        /\ storedTags' = rows["c1"]
        /\ otherTags' = rows["c2"]

\* action 'updateSetting' for the request createTaggedFormData builds: store
\* the setting and the tags as sent, sort and reorder if enabled, answer with
\* the tag
updateSettingAction(enabled, tags, outcome) ==
    LET form == createTaggedFormData("c1",
                    [enabled |-> enabled, sortType |-> "bestsellers", exclusionTags |-> tags])
        sentEnabled == form.enabled = "true"
        sentTags == JSONparseTags(form.exclusionTags)
        operationTag == JSONparseTag(form.operationTag)
        setting == [enabled |-> sentEnabled, sortType |-> form.sortType]
    IN  /\ outcome \in {"fetchThrows", "reorderFails"} => sortIfEnabled(sentEnabled)
        /\ outcome = "createManyThrows" => Len(tags) > 0
        /\ formData' = form
        /\ CASE outcome = "upsertThrows" ->
                  /\ actionResponse' = errorResponse("Failed to save setting", operationTag)
                  /\ NoSort("failed")
                  /\ catalog' = NoCatalog
                  /\ UNCHANGED <<storedSetting, storedTags, otherTags>>
             [] outcome = "deleteManyThrows" ->
                  /\ Persist("upsert", setting, sentTags)
                  /\ actionResponse' = errorResponse("Failed to save setting", operationTag)
                  /\ NoSort("failed")
                  /\ catalog' = NoCatalog
             [] outcome = "createManyThrows" ->
                  /\ Persist("deleteMany", setting, sentTags)
                  /\ actionResponse' = errorResponse("Failed to save setting", operationTag)
                  /\ NoSort("failed")
                  /\ catalog' = NoCatalog
             [] outcome = "fetchThrows" ->
                  /\ Persist("createMany", setting, sentTags)
                  /\ actionResponse' = errorResponse("Failed to save setting", operationTag)
                  /\ NoSort("failed")
                  /\ catalog' = fetchCall
             [] OTHER ->
                  /\ Persist("createMany", setting, sentTags)
                  /\ IF sortIfEnabled(sentEnabled)
                       THEN /\ RunSort(toLowerCaseAll(sentTags), "updateSetting")
                            /\ catalog' = reorderCall(inStock', outOfStock')
                       ELSE /\ NoSort("saved")
                            /\ catalog' = NoCatalog
                  /\ actionResponse' =
                        IF outcome = "reorderFails"
                          THEN errorResponse("Settings saved but sort failed", operationTag)
                          ELSE [success |-> TRUE, error |-> "none", operationTag |-> operationTag,
                                stats |-> IF sortIfEnabled(sentEnabled)
                                            THEN sortStats(inStock', outOfStock')
                                            ELSE NoStats]
    /\ UNCHANGED products
    /\ UNCHANGED <<supVars, reorderVars, tagVars, fetchVars, startVars>>

\* action 'sortCollection': sort with the tags read from the database
sortCollectionAction ==
    /\ RunSort(toLowerCaseAll(storedTags), "sortCollection")
    /\ formData' = NoForm
    /\ actionResponse' = NoResponse
    /\ catalog' = reorderCall(inStock', outOfStock')
    /\ UNCHANGED <<products, storedTags, storedSetting, otherTags>>
    /\ UNCHANGED <<supVars, reorderVars, tagVars, fetchVars, startVars>>

\* the sort engine and its callers, with requests that go through
SortNext ==
    \/ \E tags \in ConfiguredTagLists : DirectSort(tags)
    \/ \E enabled \in BOOLEAN, tags \in ConfiguredTagLists :
           updateSettingAction(enabled, tags, "ok")
    \/ sortCollectionAction

\* longest product list of a collection the apply action is followed on
MaxApplyProducts == 1

\* the apply action with every outcome of its awaited calls
ApplyInit ==
    /\ SortInit
    /\ Len(products) <= MaxApplyProducts

ApplyNext ==
    \/ \E enabled \in BOOLEAN, tags \in SentTagLists, outcome \in ActionOutcomes :
           updateSettingAction(enabled, tags, outcome)
    \/ sortCollectionAction

\* ---------------------------------------------------------------- reorder
\* reorderCollectionProducts, updateCollectionSortOrder and
\* waitForJobCompletion of src/app/services/collection-sorting.server.ts
maxWaitTime == 30000
pollInterval == 2000

\* the time one status query takes on top of the pause between two polls
Latencies == {0, 500}

\* a default that names an automatic key
automaticSortOrder == "BEST_SELLING"

\* sortOrder: string = 'MANUAL'
defaultSortOrder == "MANUAL"

COLLECTION_SORT_ORDER_MAPPING(sortType) ==
    CASE sortType = "bestsellers asc" -> "BEST_SELLING"
      [] sortType = "price_desc desc" -> "PRICE_DESC"
      [] OTHER -> "MANUAL"

SortTypes == {"bestsellers asc", "price_desc desc", "manual asc"}
SortOrders == {COLLECTION_SORT_ORDER_MAPPING(t) : t \in SortTypes}
IdLists == { <<>>, <<"A">>, <<"B", "C", "A">> }

NoJob == [id |-> "none", done |-> FALSE]
NoJobResult == [completed |-> FALSE, timedOut |-> FALSE, called |-> FALSE]
NoResult == [success |-> FALSE, jobId |-> "none", error |-> "none"]

NoSortOrderResult == [called |-> FALSE, success |-> FALSE, error |-> "none"]

\* the value updateCollectionSortOrder returns for each answer of the catalog
sortOrderOutcome(outcome) ==
    CASE outcome = "ok" -> [called |-> TRUE, success |-> TRUE, error |-> "none"]
      [] outcome = "errors" -> [called |-> TRUE, success |-> FALSE, error |-> "GraphQL error"]
      [] outcome = "userErrors" -> [called |-> TRUE, success |-> FALSE, error |-> "Sort order error"]
      [] OTHER -> [called |-> TRUE, success |-> FALSE, error |-> "Failed to update sort order"]

\* a check that lets every answer pass
sortOrderNeverFailed(r) == FALSE

\* if (!sortOrderResult.success)
sortOrderFailed(r) == ~r.success

Failure(error) == [success |-> FALSE, jobId |-> "none", error |-> error]

\* a wait that did not complete is an error
failIncompleteJob(waited, jobId) ==
    IF waited.called /\ ~waited.completed
      THEN Failure("Reorder job did not complete")
      ELSE [success |-> TRUE, jobId |-> jobId, error |-> "none"]

\* what the call returns once the submission was accepted, whatever the wait gave
acceptedResult(waited, jobId) == [success |-> TRUE, jobId |-> jobId, error |-> "none"]

\* a move list that counts positions from 1
buildMovesOneBased(ids) ==
    [i \in 1..Len(ids) |->
        [id |-> ids[i], newPosition |-> <<"0", "1", "2", "3", "4">>[i + 1]]]

\* newPosition: `${newIndex}`
IndexString(newIndex) == <<"0", "1", "2", "3">>[newIndex + 1]

buildMoves(ids) == [i \in 1..Len(ids) |-> [id |-> ids[i], newPosition |-> IndexString(i - 1)]]

ReorderIdle ==
    /\ pc = "idle"
    /\ sortOrder = "BEST_SELLING"
    /\ sortOrderBefore = "BEST_SELLING"
    /\ sortedProductIds = <<>>
    /\ originalSortType = "bestsellers asc"
    /\ moves = <<>>
    /\ job = NoJob
    /\ elapsed = 0
    /\ polls = 0
    /\ jobResult = NoJobResult
    /\ sortOrderResult = NoSortOrderResult
    /\ submissions = 0
    /\ result = NoResult

ReorderInit ==
    /\ pc = "idle"
    /\ sortOrder \in SortOrders
    /\ sortOrderBefore = sortOrder
    /\ sortedProductIds = <<>>
    /\ originalSortType = "bestsellers asc"
    /\ moves = <<>>
    /\ job = NoJob
    /\ elapsed = 0
    /\ polls = 0
    /\ jobResult = NoJobResult
    /\ sortOrderResult = NoSortOrderResult
    /\ submissions = 0
    /\ result = NoResult

Return(value) ==
    /\ result' = value
    /\ pc' = "done"

reorderCollectionProducts(ids, sortType) ==
    /\ pc = "idle"
    /\ pc' = "setManual"
    /\ sortedProductIds' = ids
    /\ originalSortType' = sortType
    /\ sortOrderBefore' = sortOrder
    /\ UNCHANGED <<sortOrder, moves, job, elapsed, polls, jobResult, sortOrderResult,
                   submissions, result>>
    /\ UNCHANGED <<supVars, sortVars, tagVars, fetchVars, startVars>>

updateCollectionSortOrder(outcome) ==
    /\ pc = "setManual"
    /\ sortOrderResult' = sortOrderOutcome(outcome)
    /\ sortOrder' = IF outcome = "ok" THEN defaultSortOrder ELSE sortOrder
    /\ IF sortOrderFailed(sortOrderResult')
         THEN Return(Failure(sortOrderResult'.error))
         ELSE pc' = "submit" /\ UNCHANGED result
    /\ UNCHANGED <<sortOrderBefore, sortedProductIds, originalSortType, moves, job,
                   elapsed, polls, jobResult, submissions>>
    /\ UNCHANGED <<supVars, sortVars, tagVars, fetchVars, startVars>>

submitMoves(outcome) ==
    /\ pc = "submit"
    /\ moves' = buildMoves(sortedProductIds)
    /\ CASE outcome = "errors" ->
              Return(Failure("GraphQL error")) /\ UNCHANGED job
         [] outcome = "userErrors" ->
              Return(Failure("Reorder error")) /\ UNCHANGED job
         [] outcome = "throws" ->
              Return(Failure("Failed to reorder")) /\ UNCHANGED job
         [] outcome = "noJob" ->
              Return(acceptedResult(jobResult, "none")) /\ UNCHANGED job
         [] outcome = "jobDone" ->
              /\ job' = [id |-> "job1", done |-> TRUE]
              /\ Return(acceptedResult(jobResult, "job1"))
         [] OTHER ->
              /\ job' = [id |-> "job1", done |-> FALSE]
              /\ pc' = "wait"
              /\ UNCHANGED result
    /\ elapsed' = 0
    /\ polls' = 0
    /\ submissions' = submissions + 1
    /\ UNCHANGED <<sortOrder, sortOrderBefore, sortedProductIds, originalSortType,
                   jobResult, sortOrderResult>>
    /\ UNCHANGED <<supVars, sortVars, tagVars, fetchVars, startVars>>

\* a loop that still runs when maxWaitTime has just elapsed
loopUntilPast(sinceStart) == sinceStart <= maxWaitTime

\* while (Date.now() - startTime < maxWaitTime)
loopCondition(sinceStart) == sinceStart < maxWaitTime

\* the wait is over: its value goes back to reorderCollectionProducts, which returns
EndWait(completed) ==
    /\ jobResult' = [completed |-> completed, timedOut |-> ~completed, called |-> TRUE]
    /\ Return(acceptedResult(jobResult', job.id))

\* one turn of the polling loop
pollJob(outcome, latency) ==
    /\ pc = "wait"
    /\ loopCondition(elapsed)
    /\ polls' = polls + 1
    /\ CASE outcome = "done" ->
              /\ job' = [job EXCEPT !.done = TRUE]
              /\ EndWait(TRUE)
              /\ UNCHANGED elapsed
         [] outcome = "notDone" ->
              /\ elapsed' = elapsed + latency + pollInterval
              /\ UNCHANGED <<pc, job, jobResult, result>>
         [] OTHER ->
              /\ EndWait(FALSE)
              /\ UNCHANGED <<job, elapsed>>
    /\ UNCHANGED <<sortOrder, sortOrderBefore, sortedProductIds, originalSortType, moves,
                   sortOrderResult, submissions>>
    /\ UNCHANGED <<supVars, sortVars, tagVars, fetchVars, startVars>>

\* the loop condition fails
waitExpired ==
    /\ pc = "wait"
    /\ ~loopCondition(elapsed)
    /\ EndWait(FALSE)
    /\ UNCHANGED <<sortOrder, sortOrderBefore, sortedProductIds, originalSortType, moves,
                   job, elapsed, polls, sortOrderResult, submissions>>
    /\ UNCHANGED <<supVars, sortVars, tagVars, fetchVars, startVars>>

ReorderNext ==
    \/ \E ids \in IdLists, sortType \in SortTypes : reorderCollectionProducts(ids, sortType)
    \/ \E outcome \in {"ok", "errors", "userErrors", "throws"} : updateCollectionSortOrder(outcome)
    \/ \E outcome \in {"errors", "userErrors", "throws", "noJob", "jobDone", "jobPending"} :
           submitMoves(outcome)
    \/ \E outcome \in {"done", "notDone", "errors", "noJob", "throws"}, latency \in Latencies :
           pollJob(outcome, latency)
    \/ waitExpired

\* ------------------------------------- the comparison and the tag check
\* longest exclusion tag list of a compared state
MaxTags == 2

TagLists == UNION { [1..n -> TagStrings] : n \in 0..MaxTags }

CollectionStates ==
    { [enabled |-> e, sortType |-> t, exclusionTags |-> x] :
        e \in BOOLEAN, t \in {"bestsellers", "price_desc"}, x \in TagLists }

\* the timestamps two tags can carry
Stamps == 0..1

NoHandled == [implementedState |-> normalizeCollectionState, operationStatus |-> NoStatus]

\* createOperationTag at the time now
createOperationTagAt(collectionId, targetState, now) ==
    [collectionId |-> collectionId, targetState |-> targetState, timestamp |-> now]

\* uiState or implementedState with state for c1 and the default for the rest
StateMap(state) == [c \in Colls |-> IF c = "c1" THEN state ELSE normalizeCollectionState]

TagIdle ==
    /\ state1 = normalizeCollectionState
    /\ state2 = normalizeCollectionState
    /\ stamps = <<0, 0>>
    /\ checked = "none"
    /\ equalTo = FALSE
    /\ detected = <<>>
    /\ validTag = FALSE
    /\ handled = NoHandled

TagInit ==
    /\ state1 \in CollectionStates
    /\ state2 \in CollectionStates
    /\ stamps \in {st \in Stamps \X Stamps : st[1] < st[2]}
    /\ checked = "none"
    /\ equalTo = FALSE
    /\ detected = <<>>
    /\ validTag = FALSE
    /\ handled = NoHandled

\* areStatesEqual(uiState[c1], implementedState[c1])
compareStates ==
    /\ checked' = "areStatesEqual"
    /\ equalTo' = areStatesEqual(state1, state2)
    /\ detected' = <<>> /\ validTag' = FALSE /\ handled' = NoHandled
    /\ UNCHANGED <<state1, state2, stamps>>
    /\ UNCHANGED <<supVars, sortVars, reorderVars, fetchVars, startVars>>

\* detectStateDifferences(uiState, implementedState)
detectDifferences ==
    /\ checked' = "detectStateDifferences"
    /\ detected' = detectStateDifferences(StateMap(state1), StateMap(state2))
    /\ equalTo' = FALSE /\ validTag' = FALSE /\ handled' = NoHandled
    /\ UNCHANGED <<state1, state2, stamps>>
    /\ UNCHANGED <<supVars, sortVars, reorderVars, fetchVars, startVars>>

\* isTagValid for the tag of an operation with target state2
validateTag ==
    /\ checked' = "isTagValid"
    /\ validTag' = isTagValid(createOperationTagAt("c1", state2, stamps[1]), StateMap(state1))
    /\ equalTo' = FALSE /\ detected' = <<>> /\ handled' = NoHandled
    /\ UNCHANGED <<state1, state2, stamps>>
    /\ UNCHANGED <<supVars, sortVars, reorderVars, fetchVars, startVars>>

\* the hook while the operation issued at stamps[2] for uiState[c1] = state1
\* is in flight
FreshInFlight ==
    [implementedState |-> StateMap(normalizeCollectionState),
     operationStatus  |-> [c \in Colls |-> IF c = "c1" THEN initializeOperationStatus
                                                       ELSE NoStatus],
     operationQueue   |-> <<>>,
     isProcessing     |-> TRUE,
     fetcher          |-> [state |-> "submitting", hasData |-> FALSE, data |-> NoData],
     request          |-> createOperationTagAt("c1", state1, stamps[2]),
     dirty            |-> {},
     attempts         |-> [c \in Colls |-> IF c = "c1" THEN 2 ELSE 0]]

\* the response handler, handed the answer of the operation issued at
\* stamps[1] with target state2 after the operation issued at stamps[2]
lateResponse(success) ==
    /\ ~areStatesEqual(state1, normalizeCollectionState)
    /\ LET answer == [state |-> "idle", hasData |-> TRUE,
                      data |-> [success |-> success,
                                error |-> IF success THEN "none" ELSE "Failed to save setting",
                                operationTag |-> createOperationTagAt("c1", state2, stamps[1])]]
           snap == [uiState |-> StateMap(state1),
                    implementedState |-> FreshInFlight.implementedState,
                    operationStatus |-> FreshInFlight.operationStatus,
                    fetcher |-> answer]
           h == responseHandler(snap, [FreshInFlight EXCEPT !.fetcher = answer])
       IN  handled' = [implementedState |-> h.implementedState["c1"],
                       operationStatus |-> h.operationStatus["c1"]]
    /\ checked' = "lateResponse"
    /\ equalTo' = FALSE /\ detected' = <<>> /\ validTag' = FALSE
    /\ UNCHANGED <<state1, state2, stamps>>
    /\ UNCHANGED <<supVars, sortVars, reorderVars, fetchVars, startVars>>

TagNext ==
    \/ compareStates
    \/ detectDifferences
    \/ validateTag
    \/ \E success \in BOOLEAN : lateResponse(success)

\* ------------------------------------------------------ the fetched product
\* src/app/services/collection-sorting.server.ts, fetchCollectionProducts
\* variants(first: 100)
variantsFirst == 100
\* number of variants of the product
MaxVariants == 2

\* a JSON value that may be missing is the empty list or the list of the value
\* value || fallback, for a number with fallback 0 or a boolean with fallback false
orElse(value, fallback) == IF Len(value) = 0 THEN fallback ELSE value[1]

VariantNodes ==
    [inventoryQuantity : {<<>>, <<0>>, <<3>>},
     availableForSale  : {<<>>, <<TRUE>>, <<FALSE>>}]

ProductNodes ==
    UNION { { [id |-> "A", tags |-> <<>>, variants |-> v] : v \in [1..n -> VariantNodes] } :
            n \in 0..MaxVariants }

NoProductNode == [id |-> "none", tags |-> <<>>, variants |-> <<>>]

NoProduct == [id |-> "none", tags |-> <<>>, variants |-> <<>>, isInStock |-> FALSE]

\* product.variants.edges of the answer: the first 100 variants
variantEdges(product) ==
    SubSeq(product.variants, 1,
           IF Len(product.variants) > variantsFirst THEN variantsFirst
                                                    ELSE Len(product.variants))

\* a stock test that also asks for inventory
someAvailableWithInventory(variants) ==
    \E i \in 1..Len(variants) :
        variants[i].availableForSale /\ variants[i].inventoryQuantity > 0

\* variants.some(variant => variant.availableForSale)
someAvailableForSale(variants) ==
    \E i \in 1..Len(variants) : variants[i].availableForSale

\* the body of collection.products.edges.map
mapProductNode(product) ==
    LET edges == variantEdges(product)
        variants == [i \in 1..Len(edges) |->
                        [inventoryQuantity |-> orElse(edges[i].inventoryQuantity, 0),
                         availableForSale  |-> orElse(edges[i].availableForSale, FALSE)]]
    IN  [id        |-> product.id,
         tags      |-> product.tags,
         variants  |-> variants,
         isInStock |-> someAvailableForSale(variants)]

FetchIdle ==
    /\ productNode = NoProductNode
    /\ fetched = NoProduct
    /\ placed = "none"

FetchInit ==
    /\ productNode \in ProductNodes
    /\ fetched = NoProduct
    /\ placed = "none"

\* fetchCollectionProducts maps the node
mapProduct ==
    /\ fetched = NoProduct
    /\ fetched' = mapProductNode(productNode)
    /\ UNCHANGED <<productNode, placed>>
    /\ UNCHANGED <<supVars, sortVars, reorderVars, tagVars, startVars>>

\* sortProductsWithInventory on the fetched product, no exclusion tags
sortFetched ==
    /\ fetched # NoProduct
    /\ placed = "none"
    /\ LET buckets == sortProductsWithInventory(<<fetched>>, <<>>)
       IN  placed' = IF Len(buckets.inStock) = 1 THEN "inStock" ELSE "outOfStock"
    /\ UNCHANGED <<productNode, fetched>>
    /\ UNCHANGED <<supVars, sortVars, reorderVars, tagVars, startVars>>

FetchNext ==
    \/ mapProduct
    \/ sortFetched

\* ----------------------------------------------------------- initialisation
\* src/app/hooks/useSupervisor.ts, the initialisation effect, and
\* normalizeCollectionState of src/app/utils/supervisor.client.ts
\* number of CollectionSetting rows the loader found
MaxSettings == 2
\* number of updateCollectionState calls after the initialisation
MaxStartUpdates == 1

\* a CollectionSetting row; '' stands for a sortType that is empty or missing
SettingRows == [collectionId : Colls, enabled : BOOLEAN, sortType : {"", "price_desc"}]

\* the rows of a shop: one row per collection at most
SettingLists ==
    UNION { { rows \in [1..n -> SettingRows] :
                \A i \in 1..n : \A j \in 1..n : i # j => rows[i].collectionId # rows[j].collectionId } :
            n \in 0..MaxSettings }

CollectionLists ==
    { <<>>, <<[id |-> "c1"]>>, <<[id |-> "c2"]>>,
      <<[id |-> "c1"], [id |-> "c2"]>>, <<[id |-> "c2"], [id |-> "c1"]>> }

\* normalizeCollectionState(settings) of a CollectionSetting row, which has
\* no exclusionTags
normalizeCollectionStateOf(settings) ==
    [enabled       |-> settings.enabled,
     sortType      |-> IF settings.sortType = "" THEN "bestsellers" ELSE settings.sortType,
     exclusionTags |-> <<>>]

\* an implemented state that starts from the defaults whatever is stored
copyDefault(state) == normalizeCollectionState

\* { ...normalizedState }
copyState(state) == state

\* useState<UIState>({})
EmptyStates == [c \in {} |-> normalizeCollectionState]

RECURSIVE FromSettings(_, _, _)
FromSettings(i, settings, built) ==
    IF i > Len(settings) THEN built
    ELSE LET setting == settings[i]
             normalizedState == normalizeCollectionStateOf(setting)
         IN  FromSettings(i + 1, settings,
                 [initialUIState |->
                      (setting.collectionId :> normalizedState) @@ built.initialUIState,
                  initialImplementedState |->
                      (setting.collectionId :> copyState(normalizedState))
                          @@ built.initialImplementedState])

RECURSIVE FromCollections(_, _, _)
FromCollections(i, collections, built) ==
    IF i > Len(collections) THEN built
    ELSE LET collection == collections[i]
             defaultState == normalizeCollectionState
         IN  FromCollections(i + 1, collections,
                 IF collection.id \notin DOMAIN built.initialUIState
                   THEN [initialUIState |->
                             (collection.id :> defaultState) @@ built.initialUIState,
                         initialImplementedState |->
                             (collection.id :> copyState(defaultState))
                                 @@ built.initialImplementedState]
                   ELSE built)

\* the two maps the initialisation effect hands to setUIState and
\* setImplementedState
initialStates(settings, collections) ==
    FromCollections(1, collections,
        FromSettings(1, settings,
            [initialUIState |-> EmptyStates, initialImplementedState |-> EmptyStates]))

\* the loader data that gives InitialState
StartIdle ==
    /\ existingSettings = <<>>
    /\ initialCollections = [i \in 1..Len(CollSeq) |-> [id |-> CollSeq[i]]]
    /\ initialized = TRUE

\* the hook as constructed, before its first effect
StartInit ==
    /\ existingSettings \in SettingLists
    /\ initialCollections \in CollectionLists
    /\ initialized = FALSE
    /\ uiState = EmptyStates
    /\ implementedState = EmptyStates
    /\ operationStatus = [c \in Colls |-> NoStatus]
    /\ operationQueue = <<>>
    /\ isProcessing = FALSE
    /\ fetcher = [state |-> "idle", hasData |-> FALSE, data |-> NoData]
    /\ request = NoTag
    /\ rendered = [uiState |-> EmptyStates, implementedState |-> EmptyStates,
                   operationStatus |-> [c \in Colls |-> [status |-> "none"]]]
    /\ dirty = {}
    /\ updatesLeft = MaxStartUpdates
    /\ retriesLeft = 0
    /\ attempts = [c \in Colls |-> 0]

\* the initialisation effect
initialize ==
    /\ ~initialized
    /\ initialized' = TRUE
    /\ LET built == initialStates(existingSettings, initialCollections)
       IN  /\ uiState' = built.initialUIState
           /\ implementedState' = built.initialImplementedState
    /\ dirty' = dirty \cup {"uiState", "implementedState"}
    /\ UNCHANGED <<operationStatus, operationQueue, isProcessing, fetcher, request,
                   rendered, updatesLeft, retriesLeft, attempts>>
    /\ UNCHANGED <<existingSettings, initialCollections>>
    /\ UNCHANGED <<sortVars, reorderVars, tagVars, fetchVars>>

StartNext ==
    \/ initialize
    \/ Commit
    \/ initialized /\ \E c \in Colls, u \in Updates : updateCollectionState(c, u)

\* --------------------------------------------------------- specifications
Init == InitSup /\ SortIdle /\ ReorderIdle /\ TagIdle /\ FetchIdle /\ StartIdle

Spec == Init /\ [][Next]_vars

InitSortSpec == InitSup /\ SortInit /\ ReorderIdle /\ TagIdle /\ FetchIdle /\ StartIdle

SortSpec == InitSortSpec /\ [][SortNext]_vars

InitReorderSpec == InitSup /\ SortIdle /\ ReorderInit /\ TagIdle /\ FetchIdle /\ StartIdle

ReorderSpec == InitReorderSpec /\ [][ReorderNext]_vars

\* the call keeps running: an awaited reply arrives, a pause ends
ReorderLiveSpec == InitReorderSpec /\ [][ReorderNext]_vars /\ WF_vars(ReorderNext)

InitApplySpec == InitSup /\ ApplyInit /\ ReorderIdle /\ TagIdle /\ FetchIdle /\ StartIdle

ApplySpec == InitApplySpec /\ [][ApplyNext]_vars

InitTagSpec == InitSup /\ SortIdle /\ ReorderIdle /\ TagInit /\ FetchIdle /\ StartIdle

TagSpec == InitTagSpec /\ [][TagNext]_vars

InitFetchSpec == InitSup /\ SortIdle /\ ReorderIdle /\ TagIdle /\ FetchInit /\ StartIdle

FetchSpec == InitFetchSpec /\ [][FetchNext]_vars

InitStartSpec == StartInit /\ SortIdle /\ ReorderIdle /\ TagIdle /\ FetchIdle

StartSpec == InitStartSpec /\ [][StartNext]_vars

\* ------------------------------------------------- the supervisor's claims
Settled(c) ==
    /\ operationStatus[c].status # "processing"
    /\ ~InQueue(operationQueue, c)
    /\ areStatesEqual(implementedState[c], uiState[c])

\* nothing is left that would change the state if the user does nothing more:
\* no request is in flight, and either no render is pending and no status is
\* left for the timer to age, or the pending render reproduces the state it
\* starts from (and so re-arms the timer for ever)
AtRest ==
    /\ request = NoTag
    /\ IF dirty = {}
         THEN \A c \in Colls : operationStatus[c].status = "none"
         ELSE Committed = Hook /\ View(Snapshot) = rendered

\* C1 Convergence, as the state it must end in: whenever the system has come
\* to rest, no operation of any collection is processing or queued and its
\* implementedState equals (areStatesEqual) its uiState.
Convergence == AtRest => \A c \in Colls : Settled(c)

OnlyOnSuccess ==
    [][\A c \in Colls : implementedState'[c] # implementedState[c] =>
          fetcher.hasData /\ fetcher.data.success]_vars

InFlight(c) == request.collectionId = c /\ operationStatus[c].status = "processing"

QueuedCount(c) ==
    Cardinality({i \in 1..Len(operationQueue) : operationQueue[i].collectionId = c})

\* C4 At-most-one-in-flight: a collection never has more than one operation
\* that is dispatched and unsettled or waiting in the queue.
AtMostOne ==
    \A c \in Colls : (IF InFlight(c) THEN 1 ELSE 0) + QueuedCount(c) <= 1

\* C5 Retry bound: with uiState[c] unchanged and no retryOperation(c), no
\* more than 3 requests (1 initial + 2 retries) are dispatched for c without
\* a success in between.
RetryBound == \A c \in Colls : attempts[c] <= maxRetries + 1

TimedOutNow(c) == isOperationTimedOut(Aged(operationStatus[c]))

\* C6 Timeout conversion: the tick that finds c 'processing' for more than
\* timeoutMs gives it the status a failure would (retry or error, count + 1),
\* leaves implementedState[c] alone, and, when c is the operation in flight,
\* releases the processing slot so that a dispatch can follow.
TimeoutAsFailure ==
    [][\A c \in Colls : (Tick /\ TimedOutNow(c)) =>
          /\ operationStatus'[c] =
                updateOperationStatus(Aged(operationStatus[c]), FALSE, "Operation timed out")
          /\ implementedState'[c] = implementedState[c]
          /\ (isProcessing /\ request.collectionId = c) =>
                (~isProcessing' \/ request' # request)]_vars

\* ------------------------------------------------ the sort engine's claims
Sorted == sortVia \in {"direct", "updateSetting", "sortCollection"}

\* one of the product's tags equals one of tagList, letter case ignored
TagsMatch(product, tagList) ==
    \E i \in 1..Len(product.tags) : \E j \in 1..Len(tagList) :
        toLowerCase(product.tags[i]) = toLowerCase(tagList[j])

KeepRule(product, tagList) == product.isInStock \/ TagsMatch(product, tagList)

\* the two buckets are the products that satisfy KeepRule and those that do
\* not, each in the order of the input
IsStablePartition(tagList) ==
    LET keep(product) == KeepRule(product, tagList)
        pushDown(product) == ~KeepRule(product, tagList)
    IN  /\ inStock = SelectSeq(products, keep)
        /\ outOfStock = SelectSeq(products, pushDown)

IsLowerCase(tagList) == \A j \in 1..Len(tagList) : toLowerCase(tagList[j]) = tagList[j]

Ids(productList) == [i \in 1..Len(productList) |-> productList[i].id]

ViaAction == sortVia \in {"updateSetting", "sortCollection"}

InBucket(product, bucket) == \E i \in 1..Len(bucket) : bucket[i] = product

\* C8 Case-insensitive exclusion through the actions: after a sort run by
\* updateSetting or sortCollection, a product that is not in stock is kept
\* iff one of its tags equals one of the configured exclusion tags, letter
\* case ignored on both sides.
CaseInsensitiveExclusion ==
    ViaAction =>
        \A i \in 1..Len(products) :
            ~products[i].isInStock =>
                (InBucket(products[i], inStock) <=> TagsMatch(products[i], storedTags))

\* both directions in one sort: configured 'PreOrder' keeps a product tagged
\* 'preorder', and configured 'sale' keeps a product tagged 'Sale'
CaseInsensitiveWitness ==
    /\ ViaAction
    /\ storedTags = <<"PreOrder", "sale">>
    /\ \E i \in 1..Len(inStock) :
           ~inStock[i].isInStock /\ inStock[i].tags = <<"preorder">>
    /\ \E i \in 1..Len(inStock) :
           ~inStock[i].isInStock /\ inStock[i].tags = <<"Sale">>

JobTimeoutTolerance ==
    (pc = "done" /\ jobResult.called /\ ~jobResult.completed) =>
        /\ result.success
        /\ result.jobId = job.id
        /\ result.error = "none"

\* the polling loop ran for maxWaitTime without seeing the job done
JobTimeoutWitness ==
    /\ pc = "done"
    /\ jobResult.called /\ ~jobResult.completed /\ jobResult.timedOut
    /\ elapsed >= maxWaitTime
    /\ ~job.done
    /\ result.success /\ result.jobId = "job1"

\* ------------------------------------------ the supervisor's claims, second part
\* the status of c has been 'ready' or 'error' for more than cleanupDelayMs
\* when the coming second has passed
CleanupDue(c) ==
    /\ operationStatus[c].status \in {"ready", "error"}
    /\ operationStatus[c].age + tickMs > cleanupDelayMs

\* C11 Cleanup: the tick removes the status of a collection that has been
\* 'ready' or 'error' for more than 3 000 ms, and a tick that removes a
\* status changes neither uiState nor implementedState of any collection.
Cleanup ==
    [][\A c \in Colls : (Tick /\ CleanupDue(c)) =>
          /\ operationStatus'[c] = NoStatus
          /\ uiState' = uiState
          /\ implementedState' = implementedState]_vars

\* the tick has just removed a 'ready' status that the last render still shows
CleanupWitness ==
    \E c \in Colls :
        /\ operationStatus[c] = NoStatus
        /\ rendered.operationStatus[c].status = "ready"
        /\ "operationStatus" \in dirty

\* the step submits a request for c
DispatchStep(c) ==
    /\ request'.collectionId = c
    /\ request' # request \/ attempts'[c] > attempts[c]

\* C12 Reconcile is idempotent and re-entrant: a step that submits a request
\* for c starts with no unsettled request of c in flight and leaves no
\* further operation of c in the queue, however often and from whichever
\* callback runSupervisor runs.
ReconcileReentrant ==
    [][\A c \in Colls : DispatchStep(c) => ~InFlight(c) /\ QueuedCount(c)' = 0]_vars

\* -------------------------------------- the reorder's claims, second part
\* C13 Precondition failure: when the switch to MANUAL failed, the call
\* returns success = false with the error of the switch and sends no
\* collectionReorderProducts mutation.
PreconditionFailure ==
    (sortOrderResult.called /\ ~sortOrderResult.success) =>
        /\ submissions = 0
        /\ pc = "done"
        /\ ~result.success
        /\ result.error = sortOrderResult.error

\* the switch was refused with userErrors and the call has returned
PreconditionFailureWitness ==
    /\ pc = "done"
    /\ sortOrderResult.called
    /\ sortOrderResult.error = "Sort order error"
    /\ sortedProductIds = <<"B", "C", "A">>
    /\ ~result.success

\* the number a decimal string denotes
ParseIndex(str) ==
    CASE str = "0" -> 0 [] str = "1" -> 1 [] str = "2" -> 2 [] str = "3" -> 3 [] OTHER -> -1

\* C14 Move list: the call sends at most one reorder submission, and the
\* moves it sends are one per element of sortedProductIds, in input order,
\* each with its element's 0-based index as newPosition.
MoveList ==
    /\ submissions <= 1
    /\ submissions = 1 =>
          /\ Len(moves) = Len(sortedProductIds)
          /\ \A i \in 1..Len(moves) :
                /\ moves[i].id = sortedProductIds[i]
                /\ ParseIndex(moves[i].newPosition) = i - 1

\* three products have been submitted
MoveListWitness ==
    /\ submissions = 1
    /\ sortedProductIds = <<"B", "C", "A">>
    /\ moves = << [id |-> "B", newPosition |-> "0"],
                  [id |-> "C", newPosition |-> "1"],
                  [id |-> "A", newPosition |-> "2"] >>

\* ------------------------------------- the sort engine's claims, second part
\* the form has been sent and answered
Answered == formData # NoForm /\ actionResponse # NoResponse

NoDispatchInError ==
    [][\A c \in Colls :
         (operationStatus[c].status = "error" /\ DispatchStep(c)) => retryOperation(c)]_vars

\* the second half of the explicit-retry property, for a retry issued from
\* the current render: retryOperation(c) removes the status of c, leaves
\* uiState and implementedState alone, and queues or dispatches c exactly
\* when uiState[c] differs from implementedState[c].
RetryEffect ==
    [][\A c \in Colls :
         (retryOperation(c) /\ rendered.uiState = uiState
                           /\ rendered.implementedState = implementedState) =>
         /\ uiState' = uiState
         /\ implementedState' = implementedState
         /\ operationStatus'[c].status \in {"none", "processing"}
         /\ (DispatchStep(c) \/ InQueue(operationQueue', c))
              <=> ~areStatesEqual(uiState[c], implementedState[c])]_vars

\* the answer the fetcher holds is for c, is stale against uiState, and has
\* been rendered and handled with nothing submitted since
StaleHandled(c) ==
    /\ fetcher.state = "idle" /\ fetcher.hasData
    /\ fetcher.data.operationTag.collectionId = c
    /\ ~isTagValid(fetcher.data.operationTag, uiState)
    /\ dirty = {}

\* the first part of the stale-response property: once a stale answer for c
\* has been handled, c is no longer marked as processing
StaleMarkCleared ==
    \A c \in Colls : StaleHandled(c) => operationStatus[c].status # "processing"

\* C17 Stale response: once a stale answer for c has been handled, an
\* operation for the present uiState[c] has been dispatched where it differs
\* from implementedState[c]; the dispatch follows from the answer and does not
\* wait for the timeout.
StaleRedispatch ==
    \A c \in Colls : StaleHandled(c) => areStatesEqual(uiState[c], implementedState[c])

Occurrences(t, tags) == Cardinality({i \in 1..Len(tags) : tags[i] = t})

\* equal as lists up to order: every string occurs equally often
SameTagLists(tags1, tags2) ==
    \A t \in TagStrings : Occurrences(t, tags1) = Occurrences(t, tags2)

\* equal as sets of strings, letter case ignored
SameTagSets(tags1, tags2) ==
    {toLowerCase(tags1[i]) : i \in 1..Len(tags1)} = {toLowerCase(tags2[i]) : i \in 1..Len(tags2)}

SameState ==
    /\ state1.enabled = state2.enabled
    /\ state1.sortType = state2.sortType
    /\ SameTagLists(state1.exclusionTags, state2.exclusionTags)

RetryRedispatch ==
    [][\A c \in Colls :
         (operationStatus[c].status = "retry" /\ operationStatus'[c].status # "retry") =>
             /\ operationStatus'[c].status = "processing"
             /\ DispatchStep(c)]_vars

\* -------------------------------------- the supervisor's claims, third part
\* C21 Snapshot at dispatch: a request that is submitted for c carries the
\* uiState[c] of the moment it is submitted, also when the operation was
\* taken from operationQueueRef.
SnapshotAtDispatch ==
    [][\A c \in Colls : DispatchStep(c) => request'.targetState = uiState'[c]]_vars

\* C22 Attempt counting: dispatching c again for the same uiState[c] (no
\* change of uiState[c], no success and no retryOperation(c) since the last
\* dispatch) does not reset the count kept in operationStatus[c].
AttemptCounting ==
    [][\A c \in Colls :
         (DispatchStep(c) /\ attempts[c] >= 1) =>
             operationStatus'[c].retryCount >= operationStatus[c].retryCount]_vars

\* ------------------------------------------ the reorder's claims, second part
\* C23 No partial application: when reorderCollectionProducts has returned
\* success=false the collection is as it was before the call: its sortOrder is
\* the one it had and no reorder job was started.
NoPartialApplication ==
    (pc = "done" /\ ~result.success) => sortOrder = sortOrderBefore /\ job = NoJob

\* --------------------------------------------- the apply action's claims
\* a step of the updateSetting action
ApplyStep == formData' # NoForm

\* C24 The apply action is atomic: when it answers success=false the
\* CollectionSetting row and the ExclusionTag rows of (shop, c1) are as they
\* were before the request.
ApplyAtomic ==
    [][(ApplyStep /\ ~actionResponse'.success) =>
          /\ storedSetting' = storedSetting
          /\ storedTags' = storedTags]_vars

\* C25 Enabled gating: a request the action answered with success fetched,
\* partitioned and reordered the collection exactly when it had enabled=true;
\* with enabled=false the action made no call of the catalog and its answer
\* has no stats.  No request with enabled=false reaches the catalog at all.
EnabledGating ==
    formData # NoForm =>
        /\ formData.enabled = "false" =>
              /\ catalog = NoCatalog
              /\ sortVia # "updateSetting"
              /\ actionResponse.stats = NoStats
        /\ (formData.enabled = "true" /\ actionResponse.success) =>
              /\ sortVia = "updateSetting"
              /\ catalog = reorderCall(inStock, outOfStock)
              /\ Len(catalog.sortedProductIds) = Len(products)
              /\ actionResponse.stats = sortStats(inStock, outOfStock)
        /\ (formData.enabled = "false" /\ sortVia = "saved") =>
              /\ actionResponse.success
              /\ storedSetting = [enabled |-> FALSE, sortType |-> formData.sortType]

\* a request with enabled=false was saved and answered
GatingWitness ==
    /\ formData.action = "updateSetting"
    /\ formData.enabled = "false"
    /\ actionResponse.success
    /\ Len(products) > 0
    /\ catalog = NoCatalog

TagSet(tags) == {tags[i] : i \in 1..Len(tags)}

\* C26 Replace semantics: after an updateSetting for c1 that was answered with
\* success the stored exclusion tags of c1 are exactly the tags of the
\* request, each once, and the stored tags of c2 are what they were.
ReplaceSemantics ==
    [][(ApplyStep /\ actionResponse'.success) =>
          /\ TagSet(storedTags') = TagSet(JSONparseTags(formData'.exclusionTags))
          /\ Cardinality(TagSet(storedTags')) = Len(storedTags')
          /\ otherTags' = otherTags]_vars

\* a request that carried one tag twice has replaced the stored tags
ReplaceWitness ==
    /\ formData.action = "updateSetting"
    /\ actionResponse.success
    /\ JSONparseTags(formData.exclusionTags) = <<"sale", "sale">>
    /\ storedTags = <<"sale">>
    /\ otherTags = <<"sale">>

\* ------------------------------------- the supervisor's claims, fourth part
\* the fetcher holds a failure answer for c that the next render will hand
\* to the response handler for the first time
FailureArrived(c) ==
    /\ fetcher.state = "idle" /\ fetcher.hasData
    /\ ~fetcher.data.success
    /\ fetcher.data.operationTag.collectionId = c
    /\ "fetcher" \in dirty

\* C27 Failure containment: the render that handles a failure answer of the
\* apply action for c does not leave operationStatus[c] at 'processing',
\* unless it dispatches c again.
FailureContainment ==
    [][\A c \in Colls : (Commit /\ FailureArrived(c)) =>
          operationStatus'[c].status # "processing" \/ DispatchStep(c)]_vars

\* the part of the failure-containment property that is about answers whose
\* tag is valid: the render that handles one turns operationStatus[c] into
\* 'retry' or 'error' and records the error
ValidFailureContained ==
    [][\A c \in Colls :
         (Commit /\ FailureArrived(c) /\ isTagValid(fetcher.data.operationTag, uiState)) =>
             \/ /\ operationStatus'[c].status \in {"retry", "error"}
                /\ operationStatus'[c].lastError = fetcher.data.error
             \/ DispatchStep(c)]_vars

\* the part of the failure-containment property that is about the action:
\* every outcome but 'ok' is answered with success=false and an error text
FailureAnswered ==
    [][\A enabled \in BOOLEAN, tags \in SentTagLists, outcome \in ActionOutcomes :
          (updateSettingAction(enabled, tags, outcome) /\ outcome # "ok") =>
              ~actionResponse'.success /\ actionResponse'.error # "none"]_vars

\* C28 Stale response is no error: while the last answer for c is a stale one
\* that has been handled, no step puts operationStatus[c] into 'retry' or
\* 'error' or records a lastError for c, the tick that times the superseded
\* operation out included.
StaleNoError ==
    [][\A c \in Colls : StaleHandled(c) =>
          /\ operationStatus'[c].status \in {"retry", "error"} =>
                 operationStatus[c].status \in {"retry", "error"}
          /\ operationStatus'[c].lastError # "none" =>
                 operationStatus'[c].lastError = operationStatus[c].lastError]_vars

\* the part of the stale-response property that is about the handling render:
\* the render that handles a stale answer for c leaves operationStatus[c]
\* as it is, unless it dispatches c again
StaleNotSurfaced ==
    [][\A c \in Colls :
          (Commit /\ fetcher.state = "idle" /\ fetcher.hasData /\ "fetcher" \in dirty
             /\ fetcher.data.operationTag.collectionId = c
             /\ ~isTagValid(fetcher.data.operationTag, uiState)) =>
              operationStatus'[c] = operationStatus[c] \/ DispatchStep(c)]_vars

\* C29 Distinct collections proceed concurrently: while a request for
\* collection a is in flight and the page has rendered, no operation for
\* another collection b whose uiState differs from its implementedState waits
\* in the queue for the request of a to settle.
ConcurrentDispatch ==
    \A a \in Colls : \A b \in Colls \ {a} :
        (/\ request.collectionId = a
         /\ fetcher.state = "submitting"
         /\ dirty = {}
         /\ ~areStatesEqual(uiState[b], implementedState[b])) =>
            ~InQueue(operationQueue, b)

\* the shop's product has a variant that is available for sale
HasAvailableVariant ==
    \E i \in 1..Len(productNode.variants) :
        productNode.variants[i].availableForSale = <<TRUE>>

NoVariantsOutOfStock ==
    productNode # NoProductNode /\ Len(productNode.variants) = 0 /\ placed = "outOfStock"

\* the states the initialisation effect built from the loader data
Built == initialStates(existingSettings, initialCollections)

\* the collections the loader data names
Named ==
    {existingSettings[i].collectionId : i \in 1..Len(existingSettings)}
        \cup {initialCollections[i].id : i \in 1..Len(initialCollections)}

\* C31 Initialisation: once the initialisation effect has run, and until the
\* first updateCollectionState, uiState and implementedState have the same
\* keys, the collections named by the loader data, and equal values, the
\* defaults for a collection without a stored setting, and nothing is queued
\* or dispatched.
Initialisation ==
    (initialized /\ updatesLeft = MaxStartUpdates) =>
        /\ DOMAIN uiState = Named
        /\ DOMAIN implementedState = DOMAIN uiState
        /\ \A c \in DOMAIN uiState :
              /\ implementedState[c] = uiState[c]
              /\ areStatesEqual(uiState[c], implementedState[c])
              /\ (\A i \in 1..Len(existingSettings) : existingSettings[i].collectionId # c)
                     => uiState[c] = normalizeCollectionState
        /\ operationQueue = <<>>
        /\ request = NoTag
        /\ fetcher.state = "idle"
        /\ \A c \in Colls : operationStatus[c] = NoStatus

\* a collection with a stored, enabled setting and one without have been
\* rendered after the initialisation, and nothing was dispatched
InitialisationWitness ==
    /\ initialized /\ dirty = {} /\ updatesLeft = MaxStartUpdates
    /\ DOMAIN uiState = Colls
    /\ uiState["c1"] = [enabled |-> TRUE, sortType |-> "price_desc", exclusionTags |-> <<>>]
    /\ uiState["c2"] = normalizeCollectionState
    /\ Len(existingSettings) = 1
    /\ request = NoTag

\* the fields of a collection state that the update u does not name
KeptFields(u) == {"enabled", "sortType", "exclusionTags"} \ {u.field}

\* C39 Frame of updateCollectionState: for a collection that is not in
\* uiState the call changes none of uiState, implementedState and
\* operationStatus, asks for no render and submits nothing; for a known
\* collection it changes in uiState only the named field of that collection.
UpdateFrame ==
    [][\A c \in Colls : \A u \in Updates : updateCollectionState(c, u) =>
          /\ implementedState' = implementedState
          /\ operationStatus' = operationStatus
          /\ operationQueue' = operationQueue
          /\ request' = request /\ fetcher' = fetcher
          /\ IF c \notin DOMAIN uiState
               THEN uiState' = uiState /\ dirty' = dirty
               ELSE /\ DOMAIN uiState' = DOMAIN uiState
                    /\ \A d \in DOMAIN uiState \ {c} : uiState'[d] = uiState[d]
                    /\ \A f \in KeptFields(u) : uiState'[c][f] = uiState[c][f]
                    /\ uiState'[c][u.field] = u.value]_vars

\* updateCollectionState has been called while uiState held no collection
UpdateFrameWitness ==
    /\ initialized /\ updatesLeft = 0
    /\ DOMAIN uiState = {}
    /\ dirty = {} /\ request = NoTag

\* ------------------------------------------- the reorder's claims, third part
\* the most status queries one wait can send
PollLimit == maxWaitTime \div pollInterval

\* C32 Polling terminates: waitForJobCompletion sends at most
\* maxWaitTime / pollInterval status queries, two of them at least
\* pollInterval apart; while it is still polling, no reply was done=true, an
\* error, a missing job or an exception, and maxWaitTime had not elapsed at
\* the last loop test; once it has returned, nothing is polled again.
PollingTerminates ==
    /\ polls <= PollLimit
    /\ polls > 0 => (polls - 1) * pollInterval <= elapsed
    /\ pc = "wait" => ~job.done /\ ~jobResult.called /\ elapsed < maxWaitTime + pollInterval + 500
    /\ jobResult.called => pc = "done"
    /\ (pc = "done" /\ job.done /\ jobResult.called) => jobResult.completed

\* the wait has sent the most queries it can and returned without done=true
PollingTerminatesWitness ==
    /\ pc = "done" /\ polls = PollLimit
    /\ jobResult = [completed |-> FALSE, timedOut |-> TRUE, called |-> TRUE]
    /\ elapsed >= maxWaitTime

\* the progress part of the polling property: a wait that has begun returns
PollingEnds == (pc = "wait") ~> (pc = "done")

\* the replies to a status query that are not a job
PollErrors == {"errors", "noJob", "throws"}

\* C36 Polling errors are tolerated: a status query that returns GraphQL
\* errors, reports no job or throws ends the polling with that query, and
\* reorderCollectionProducts returns success=true with the id of the job.
PollErrorTolerated ==
    [][\A outcome \in PollErrors : \A latency \in Latencies :
          pollJob(outcome, latency) =>
              /\ pc' = "done"
              /\ jobResult' = [completed |-> FALSE, timedOut |-> TRUE, called |-> TRUE]
              /\ result' = [success |-> TRUE, jobId |-> job.id, error |-> "none"]
              /\ job.id # "none"]_vars

\* the second status query failed with time left, and the call returned success
PollErrorWitness ==
    /\ pc = "done" /\ polls = 2
    /\ jobResult.called /\ ~jobResult.completed
    /\ elapsed < maxWaitTime
    /\ result = [success |-> TRUE, jobId |-> "job1", error |-> "none"]

\* ---------------------------------------------- the sort's claims, second part
\* how often product p occurs in the list
CountIn(p, list) == Cardinality({i \in 1..Len(list) : list[i] = p})

\* the last request ran sortProductsWithInventory
SortRan == sortVia \in {"direct", "updateSetting", "sortCollection"}

\* C37 Partition conservation: after a sort, inStock followed by outOfStock
\* holds every product of the input list exactly once, in one bucket, and
\* nothing else; the stats of a successful apply answer count the two buckets
\* and add up to the number of fetched products.
PartitionConservation ==
    SortRan =>
        /\ Len(inStock) + Len(outOfStock) = Len(products)
        /\ \A i \in 1..Len(products) :
              CountIn(products[i], inStock) + CountIn(products[i], outOfStock) = 1
        /\ \A i \in 1..Len(inStock) : CountIn(inStock[i], products) = 1
        /\ \A i \in 1..Len(outOfStock) : CountIn(outOfStock[i], products) = 1
        /\ (actionResponse.success /\ actionResponse.stats.present) =>
              /\ actionResponse.stats.inStockCount = Len(inStock)
              /\ actionResponse.stats.outOfStockCount = Len(outOfStock)
              /\ actionResponse.stats.inStockCount + actionResponse.stats.outOfStockCount
                     = actionResponse.stats.totalProducts
              /\ actionResponse.stats.totalProducts = Len(products)

\* an apply answer with stats for three products split over both buckets
PartitionConservationWitness ==
    /\ sortVia = "updateSetting"
    /\ actionResponse.success /\ actionResponse.stats.present
    /\ Len(products) = MaxProducts
    /\ Len(inStock) = 2 /\ Len(outOfStock) = 1

\* ------------------------------------------- the supervisor's claims, frame
\* the next render hands the response handler an answer for a
HandlerRuns(a) ==
    /\ fetcher.state = "idle" /\ fetcher.hasData
    /\ fetcher.data.operationTag.collectionId = a
    /\ dirty \cap {"fetcher", "uiState", "operationStatus"} # {}

\* the hook when the response handler of the next render has returned
Handled == responseHandler(Snapshot, [Hook EXCEPT !.dirty = {}])

HandlerRunsAgain(c) ==
    /\ fetcher.state = "idle" /\ fetcher.hasData
    /\ fetcher.data.operationTag.collectionId = c
    /\ "fetcher" \notin dirty
    /\ dirty \cap {"uiState", "operationStatus"} # {}

\* C33 Each response is applied at most once: when the response handler runs
\* again on an answer it has handled before, because uiState or
\* operationStatus changed, it changes neither operationStatus[c] nor
\* implementedState[c].
AppliedOnce ==
    \A c \in Colls : HandlerRunsAgain(c) =>
        /\ Handled.operationStatus[c] = operationStatus[c]
        /\ Handled.implementedState[c] = implementedState[c]

\* ------------------------------------------- the supervisor's claims, queue
\* the step is a tick that times out the operation in flight, of collection c
TimesOutInFlight(c) ==
    /\ Tick
    /\ isProcessing
    /\ request.collectionId = c
    /\ operationStatus[c].status = "processing"
    /\ operationStatus'[c].status \in {"retry", "error"}

\* C34 Dispatch-lock liveness, as the step that must release the lock: the
\* tick that times out the operation in flight leaves isProcessingRef false or
\* has submitted the next operation of the queue, whether or not the queue is
\* empty at that moment.
TimeoutReleasesLock ==
    [][\A c \in Colls : TimesOutInFlight(c) =>
          \/ ~isProcessing'
          \/ request' # request]_vars

\* the first part of the queue invariant: at most one entry per collection
QueueEntriesDistinct == \A c \in Colls : QueuedCount(c) <= 1

\* C35 Queue invariant: operationQueueRef holds at most one entry per
\* collection, and no collection is queued while its status is 'processing'.
\* (The one fetcher holds one submission at a time, so never more than one
\* request awaits its answer.)
QueueInvariant ==
    /\ QueueEntriesDistinct
    /\ \A c \in Colls : InQueue(operationQueue, c) => operationStatus[c].status # "processing"

====
